---- MODULE Spec2Model ----
(***************************************************************************)
(* Model of back-end/accounts/views.py (AuthViewSet): the token and        *)
(* credential lifecycle of the accounts service.                           *)
(*                                                                         *)
(* State is the storage the handlers share: the account table, the two     *)
(* one-time token tables (EmailVerificationToken, PasswordResetToken), the *)
(* simplejwt outstanding/blacklisted tables, and the clock.  `resp` holds  *)
(* the last request and the response it got.                               *)
(*                                                                         *)
(* Spec     : every handler runs to completion (one request at a time);    *)
(*            accounts are created and changed with one password.          *)
(* SpecPw   : as Spec, with two passwords and no signed token given to     *)
(*            logout.                                                      *)
(* SpecConc : the handlers that do lookup/update/delete or check/insert    *)
(*            run as separate storage steps of two in-flight requests.     *)
(* SpecLogout : register and logout as storage steps of two in-flight      *)
(*            requests.                                                    *)
(***************************************************************************)
EXTENDS Integers, FiniteSets, Sequences, TLC

\* ---------------------------------------------------------------- inputs
Users == {"a", "b"}               \* e-mail addresses (the unique identity)
Passwords == {"p1", "p2"}
TokenStrings == {"t1", "t2"}      \* what the one-time token generator can draw
Anonymous == "anonymous"          \* request.user of an unauthenticated request
None == "none"
NoJti == 0                        \* parameter absent
BadJti == -1                      \* a string that is no signed token
FreshPair == "fresh_pair"         \* logout was given no token: it mints a pair

\* ---------------------------------------------------------------- bounds
TickHours == 24
MaxNow == 48
MaxJti == 3
MaxResetTokens == 1

\* ------------------------------------------------------ program constants
VerifyTokenTtlHours == 24
ResetTokenTtlHours == 24
RefreshLifetimeHours == 24

VARIABLES
    accounts,           \* [Users -> [exists, is_verified, password]]
    evTokens,           \* EmailVerificationToken rows [token, user, created_at]
    prTokens,           \* PasswordResetToken rows [pk, token, user, created_at]
    prNextPk,           \* next primary key of PasswordResetToken
    outstanding,        \* OutstandingToken rows [jti, sub, exp] (refresh tokens minted)
    nextJti,            \* next token identifier
    blacklisted,        \* BlacklistedToken: the blacklisted token identifiers
    hasAccess,          \* [Users -> whether the user holds an unexpired access token]
    now,                \* timezone.now(), in hours
    resp,               \* the request just served and its response
    req,                \* SpecConc: the in-flight requests
    everVerified,       \* history: accounts a verify_email has succeeded for
    consumed            \* history: <<kind, string>> of one-time tokens used up
                        \* by a successful request and not issued again since

dbVars == <<accounts, evTokens, prTokens, prNextPk>>
ledgerVars == <<outstanding, nextJti, blacklisted>>
vars == <<accounts, evTokens, prTokens, prNextPk, outstanding, nextJti,
          blacklisted, hasAccess, now, resp, req, everVerified, consumed>>
histVars == <<everVerified, consumed>>

NoAccount == [exists |-> FALSE, is_verified |-> FALSE, password |-> "p1"]

Resp(op, code, caller, arg, pw, refresh, sub) ==
    [op |-> op, code |-> code, caller |-> caller, arg |-> arg, pw |-> pw,
     refresh |-> refresh, sub |-> sub]

\* No response is being delivered: the server is ready for the next request.
NoResp == Resp(None, None, None, None, None, NoJti, None)

Procs == {1, 2}
Idle == [op |-> "idle", pc |-> "idle", caller |-> None, tok |-> None, pw |-> None,
         cand |-> None, pk |-> 0, owner |-> None, created_at |-> 0,
         snap |-> NoAccount, code |-> None, jti |-> NoJti]

Init ==
    /\ accounts = [u \in Users |-> NoAccount]
    /\ evTokens = {}
    /\ prTokens = {}
    /\ prNextPk = 1
    /\ outstanding = {}
    /\ nextJti = 1
    /\ blacklisted = {}
    /\ hasAccess = [u \in Users |-> FALSE]
    /\ now = 0
    /\ resp = NoResp
    /\ req = [p \in Procs |-> Idle]
    /\ everVerified = {}
    /\ consumed = {}

\* ------------------------------------------------------------ token codec

\* RefreshToken.for_user(user): a refresh token with a fresh identifier,
\* recorded as outstanding.
ForUser(u) == [jti |-> nextJti, sub |-> u, exp |-> now + RefreshLifetimeHours]

Minted(j) == \E o \in outstanding : o.jti = j
Decode(j) == CHOOSE o \in outstanding : o.jti = j

\* RefreshToken(token): signature, expiry (exp <= now is expired) and the
\* blacklist are verified; TokenError otherwise.
RefreshTokenValid(j) ==
    /\ Minted(j)
    /\ Decode(j).exp > now
    /\ j \notin blacklisted

\* AccessToken(token): signature and expiry only.  The access token of pair j
\* was issued with the refresh token j.
AccessTokenValid(j) ==
    /\ Minted(j)
    /\ Decode(j).exp - RefreshLifetimeHours = now

\* IsAuthenticated: the caller presents an unexpired access token.
CanAuth(u) == accounts[u].exists /\ hasAccess[u]

\* ------------------------------------------------------ one-time tokens

\* token_generator_and_check_if_exists(Model): a generated string that no
\* row of the table holds at the time of the check.
FreeStrings(table) == {t \in TokenStrings : \A r \in table : r.token # t}

\* (mutant) the comparison the wrong way round
VerifyTokenFreshReversed(created_at) == created_at + VerifyTokenTtlHours < now

\* created_at + timedelta(hours=24) > timezone.now()
VerifyTokenFresh(created_at) == created_at + VerifyTokenTtlHours > now
ResetTokenFresh(created_at) == created_at + ResetTokenTtlHours > now

\* Model.objects.get(...) over the matching rows.
EvRows(t) == {r \in evTokens : r.token = t}
PrRows(u, t) == {r \in prTokens : r.user = u /\ r.token = t}

\* (mutant) the stored row carries another string than the one returned
NewEvRowOtherString(t, e) ==
    [token |-> CHOOSE x \in TokenStrings : x # t, user |-> e, created_at |-> now]

\* EmailVerificationToken.objects.create(token=..., user=user)
NewEvRow(t, e) == [token |-> t, user |-> e, created_at |-> now]

\* (mutant) the account lookup always finds a row
UserExistsAlways(e) == TRUE

\* User.objects.get(email=email) finds the account
UserExists(e) == accounts[e].exists

\* (mutant) the expired row is deleted on the way out
ExpiredEntryDropped(table, row) == table \ {row}

\* The else-branch of the expiry check only builds the error response: the
\* row that was found stays in its table.
ExpiredEntryKept(table, row) == table

\* serializer credentials check of login
CredentialsMatch(e, p) == accounts[e].exists /\ accounts[e].password = p

\* (mutant) the verification check left out
NotVerifiedNever(e) == FALSE

\* `if not user.is_verified` of login
NotVerified(e) == ~accounts[e].is_verified

\* user.set_password(new_password); user.save()
SetPassword(acc, p) == [acc EXCEPT !.password = p]

\* user.is_verified = True; user.save()
SetVerified(acc) == [acc EXCEPT !.is_verified = TRUE]

\* (mutant) blacklisting an identifier that is blacklisted removes it
BlacklistRefreshToggle(r) ==
    IF r \in blacklisted THEN blacklisted \ {r} ELSE blacklisted \cup {r}

\* (mutant) the blacklist holds only the latest identifier
BlacklistRefreshReplace(r) == {r}

\* (mutant) the blacklist call left out
BlacklistRefreshNoop(r) == blacklisted

\* token.blacklist() of a verified refresh token
BlacklistRefresh(r) == blacklisted \cup {r}

\* (mutant) every refresh token of the user is blacklisted
BlacklistAllOfUser(c) == blacklisted \cup {o.jti : o \in {x \in outstanding : x.sub = c}}

\* logout without parameters: tokens.access_token.blacklist() raises
\* AttributeError before tokens.blacklist() is reached, nothing is blacklisted.
BlacklistFreshPair(c) == blacklisted

\* (mutant) the refresh token is rotated: the presented one is blacklisted
AfterRefreshRotated(r) == blacklisted \cup {r}

\* refresh_token only reads token.access_token: the blacklist is as before.
AfterRefresh(r) == blacklisted

\* (mutant) the access token minted for the caller
AccessSubjectCaller(c, r) == c

\* token.access_token: the access token carries the refresh token's subject
AccessSubject(c, r) == Decode(r).sub

\* ------------------------------------------------- handlers (whole request)

\* Requests are served one at a time: a handler starts when the previous
\* response has been delivered.
Ready == resp = NoResp

\* login (AllowAny): the refresh token is minted before the is_verified check.
login(e, p) ==
    /\ Ready
    /\ UNCHANGED <<dbVars, blacklisted, now, req, histVars>>
    /\ IF ~CredentialsMatch(e, p)
       THEN /\ resp' = Resp("login", "VALIDATION_ERROR", Anonymous, e, p, NoJti, None)
            /\ UNCHANGED <<outstanding, nextJti, hasAccess>>
       ELSE /\ nextJti <= MaxJti
            /\ outstanding' = outstanding \cup {ForUser(e)}
            /\ nextJti' = nextJti + 1
            /\ IF NotVerified(e)
               THEN /\ resp' = Resp("login", "NOT_VERIFIED", Anonymous, e, p, NoJti, None)
                    /\ UNCHANGED hasAccess
               ELSE /\ resp' = Resp("login", "OK", Anonymous, e, p, nextJti, e)
                    /\ hasAccess' = [hasAccess EXCEPT ![e] = TRUE]

\* register (AllowAny): serializer.save() creates the unverified account, then
\* the pair is minted, then the verification token is generated and inserted.
register(e, p) ==
    /\ Ready
    /\ UNCHANGED <<prTokens, prNextPk, blacklisted, now, req, everVerified>>
    /\ IF accounts[e].exists
       THEN /\ resp' = Resp("register", "VALIDATION_ERROR", Anonymous, e, None, NoJti, None)
            /\ UNCHANGED <<accounts, evTokens, outstanding, nextJti, hasAccess, consumed>>
       ELSE /\ nextJti <= MaxJti
            /\ \E t \in FreeStrings(evTokens) :
                /\ accounts' = [accounts EXCEPT ![e] =
                        [exists |-> TRUE, is_verified |-> FALSE, password |-> p]]
                /\ outstanding' = outstanding \cup {ForUser(e)}
                /\ nextJti' = nextJti + 1
                /\ evTokens' = evTokens \cup {NewEvRow(t, e)}
                /\ hasAccess' = [hasAccess EXCEPT ![e] = TRUE]
                /\ consumed' = consumed \ {<<"ev", t>>}
                /\ resp' = Resp("register", "OK", Anonymous, t, None, nextJti, e)

\* verify_email (AllowAny)
verify_email(t) ==
    /\ Ready
    /\ UNCHANGED <<prTokens, prNextPk, blacklisted, now, req>>
    /\ IF EvRows(t) = {}
       THEN /\ resp' = Resp("verify_email", "INVALID_TOKEN", Anonymous, t, None, NoJti, None)
            /\ UNCHANGED <<accounts, evTokens, outstanding, nextJti, hasAccess, histVars>>
       ELSE IF Cardinality(EvRows(t)) > 1
       THEN \* MultipleObjectsReturned, caught by `except Exception`
            /\ resp' = Resp("verify_email", "INTERNAL_SERVER_ERROR", Anonymous, t, None, NoJti, None)
            /\ UNCHANGED <<accounts, evTokens, outstanding, nextJti, hasAccess, histVars>>
       ELSE LET row == CHOOSE r \in EvRows(t) : TRUE IN
            IF VerifyTokenFresh(row.created_at)
            THEN /\ nextJti <= MaxJti
                 /\ accounts' = [accounts EXCEPT ![row.user] = SetVerified(accounts[row.user])]
                 /\ evTokens' = evTokens \ {row}
                 /\ outstanding' = outstanding \cup {ForUser(row.user)}
                 /\ nextJti' = nextJti + 1
                 /\ hasAccess' = [hasAccess EXCEPT ![row.user] = TRUE]
                 /\ everVerified' = everVerified \cup {row.user}
                 /\ consumed' = consumed \cup {<<"ev", t>>}
                 /\ resp' = Resp("verify_email", "OK", Anonymous, t, None, nextJti, row.user)
            ELSE /\ resp' = Resp("verify_email", "EXPIRED_TOKEN", Anonymous, t, None, NoJti, None)
                 /\ evTokens' = ExpiredEntryKept(evTokens, row)
                 /\ UNCHANGED <<accounts, outstanding, nextJti, hasAccess, histVars>>

\* get_profile / update_profile (IsAuthenticated): profile fields are not part
\* of the credential state.
get_profile(u) ==
    /\ Ready
    /\ CanAuth(u)
    /\ resp' = Resp("get_profile", "OK", u, None, None, NoJti, u)
    /\ UNCHANGED <<dbVars, ledgerVars, hasAccess, now, req, histVars>>

update_profile(u) ==
    /\ Ready
    /\ CanAuth(u)
    /\ resp' = Resp("update_profile", "OK", u, None, None, NoJti, u)
    /\ UNCHANGED <<dbVars, ledgerVars, hasAccess, now, req, histVars>>

\* change_password (IsAuthenticated)
change_password(u, p) ==
    /\ Ready
    /\ CanAuth(u)
    /\ accounts' = [accounts EXCEPT ![u] = SetPassword(accounts[u], p)]
    /\ resp' = Resp("change_password", "OK", u, None, None, NoJti, u)
    /\ UNCHANGED <<evTokens, prTokens, prNextPk, ledgerVars, hasAccess, now, req, histVars>>

\* send_password_reset_token (AllowAny)
send_password_reset_token(e) ==
    /\ Ready
    /\ UNCHANGED <<accounts, evTokens, ledgerVars, hasAccess, now, req, everVerified>>
    /\ IF ~UserExists(e)
       THEN /\ resp' = Resp("send_password_reset_token", "USER_NOT_FOUND", Anonymous, e, None, NoJti, None)
            /\ UNCHANGED <<prTokens, prNextPk, consumed>>
       ELSE /\ prNextPk <= MaxResetTokens
            /\ \E t \in FreeStrings(prTokens) :
                /\ prTokens' = prTokens \cup
                        {[pk |-> prNextPk, token |-> t, user |-> e, created_at |-> now]}
                /\ prNextPk' = prNextPk + 1
                /\ consumed' = consumed \ {<<"pr", t>>}
                /\ resp' = Resp("send_password_reset_token", "OK", Anonymous, t, None, NoJti, e)

\* Who can be request.user of an AllowAny endpoint.
Callers == {Anonymous} \cup {u \in Users : CanAuth(u)}

\* reset_password (AllowAny).  The DoesNotExist handler reads `e`, which is not
\* bound there: the NameError leaves the view ("UNHANDLED").  A lookup with an
\* AnonymousUser raises TypeError.
reset_password(c, t, p) ==
    /\ Ready
    /\ c \in Callers
    /\ UNCHANGED <<evTokens, prNextPk, ledgerVars, hasAccess, now, req, everVerified>>
    /\ IF c = Anonymous
       THEN /\ resp' = Resp("reset_password", "VALIDATION_ERROR", c, t, None, NoJti, None)
            /\ UNCHANGED <<accounts, prTokens, consumed>>
       ELSE IF PrRows(c, t) = {}
       THEN /\ resp' = Resp("reset_password", "UNHANDLED", c, t, None, NoJti, None)
            /\ UNCHANGED <<accounts, prTokens, consumed>>
       ELSE IF Cardinality(PrRows(c, t)) > 1
       THEN /\ resp' = Resp("reset_password", "INTERNAL_SERVER_ERROR", c, t, None, NoJti, None)
            /\ UNCHANGED <<accounts, prTokens, consumed>>
       ELSE LET row == CHOOSE r \in PrRows(c, t) : TRUE IN
            IF ResetTokenFresh(row.created_at)
            THEN /\ accounts' = [accounts EXCEPT ![c] = SetPassword(accounts[c], p)]
                 /\ prTokens' = prTokens \ {row}
                 /\ consumed' = consumed \cup {<<"pr", t>>}
                 /\ resp' = Resp("reset_password", "OK", c, t, None, NoJti, c)
            ELSE /\ resp' = Resp("reset_password", "INVALID_TOKEN", c, t, None, NoJti, None)
                 /\ prTokens' = ExpiredEntryKept(prTokens, row)
                 /\ UNCHANGED <<accounts, consumed>>

\* What a client can send as a bearer token: one that was minted, or junk.
TokenInputs == {BadJti} \cup {j \in 1..MaxJti : Minted(j)}

\* refresh_token (IsAuthenticated)
refresh_token(c, r) ==
    /\ Ready
    /\ CanAuth(c)
    /\ r \in TokenInputs
    /\ UNCHANGED <<dbVars, outstanding, nextJti, now, req, histVars>>
    /\ IF RefreshTokenValid(r)
       THEN /\ resp' = Resp("refresh_token", "OK", c, None, None, r, AccessSubject(c, r))
            /\ hasAccess' = [hasAccess EXCEPT ![AccessSubject(c, r)] = TRUE]
            /\ blacklisted' = AfterRefresh(r)
       ELSE /\ resp' = Resp("refresh_token", "INVALID_REFRESH_TOKEN", c, None, None, r, None)
            /\ UNCHANGED <<hasAccess, blacklisted>>

\* logout (IsAuthenticated); r, a: the refresh and access query parameters.
\* simplejwt's AccessToken has no blacklist() (only RefreshToken carries the
\* BlacklistMixin): calling it raises AttributeError, which `except Exception`
\* turns into INTERNAL_SERVER_ERROR after whatever was done before it.
logout(c, r, a) ==
    /\ Ready
    /\ CanAuth(c)
    /\ r \in TokenInputs \cup {NoJti}
    /\ a \in TokenInputs \cup {NoJti}
    /\ UNCHANGED <<dbVars, hasAccess, now, req, histVars>>
    /\ IF r # NoJti /\ ~RefreshTokenValid(r)
       THEN /\ resp' = Resp("logout", "INVALID_REFRESH_TOKEN", c, None, None, r, None)
            /\ UNCHANGED ledgerVars
       ELSE IF r # NoJti /\ a = NoJti
       THEN /\ blacklisted' = BlacklistRefresh(r)
            /\ resp' = Resp("logout", "OK", c, None, None, r, None)
            /\ UNCHANGED <<outstanding, nextJti>>
       ELSE IF r # NoJti
       THEN /\ blacklisted' = BlacklistRefresh(r)
            /\ UNCHANGED <<outstanding, nextJti>>
            /\ IF ~AccessTokenValid(a)
               THEN resp' = Resp("logout", "INVALID_REFRESH_TOKEN", c, None, None, r, None)
               ELSE resp' = Resp("logout", "INTERNAL_SERVER_ERROR", c, None, None, r, None)
       ELSE IF a # NoJti
       THEN /\ UNCHANGED ledgerVars
            /\ IF ~AccessTokenValid(a)
               THEN resp' = Resp("logout", "INVALID_REFRESH_TOKEN", c, None, None, r, None)
               ELSE resp' = Resp("logout", "INTERNAL_SERVER_ERROR", c, None, None, r, None)
       ELSE /\ nextJti <= MaxJti
            /\ outstanding' = outstanding \cup {ForUser(c)}
            /\ nextJti' = nextJti + 1
            /\ blacklisted' = BlacklistFreshPair(c)
            /\ resp' = Resp("logout", "INTERNAL_SERVER_ERROR", c, FreshPair, None, r, None)

\* Time passes.  A step is longer than an access token lives, so the access
\* tokens handed out before it have expired after it.
Tick ==
    /\ Ready
    /\ now + TickHours <= MaxNow
    /\ now' = now + TickHours
    /\ hasAccess' = [u \in Users |-> FALSE]
    /\ UNCHANGED <<dbVars, ledgerVars, resp, req, histVars>>

\* The response reaches the client.
Deliver ==
    /\ ~Ready
    /\ resp' = NoResp
    /\ UNCHANGED <<dbVars, ledgerVars, hasAccess, now, req, histVars>>

\* The requests that leave the ledger's blacklist alone, with every password.
NextPw ==
    \/ \E e \in Users, p \in Passwords : login(e, p)
    \/ \E e \in Users, p \in Passwords : register(e, p)
    \/ \E t \in TokenStrings : verify_email(t)
    \/ \E u \in Users : get_profile(u)
    \/ \E u \in Users : update_profile(u)
    \/ \E u \in Users, p \in Passwords : change_password(u, p)
    \/ \E e \in Users : send_password_reset_token(e)
    \/ \E c \in Users \cup {Anonymous}, t \in TokenStrings, p \in Passwords :
            reset_password(c, t, p)
    \/ \E c \in Users, r \in -1..MaxJti : refresh_token(c, r)
    \/ \E c \in Users, r \in {NoJti, BadJti}, a \in {NoJti, BadJti} : logout(c, r, a)
    \/ Tick
    \/ Deliver

\* Every request, with accounts that all use the password "p1" (a login may
\* still present the wrong one).
Next ==
    \/ \E e \in Users, p \in Passwords : login(e, p)
    \/ \E e \in Users : register(e, "p1")
    \/ \E t \in TokenStrings : verify_email(t)
    \/ \E u \in Users : get_profile(u)
    \/ \E u \in Users : update_profile(u)
    \/ \E u \in Users : change_password(u, "p1")
    \/ \E e \in Users : send_password_reset_token(e)
    \/ \E c \in Users \cup {Anonymous}, t \in TokenStrings : reset_password(c, t, "p1")
    \/ \E c \in Users, r \in -1..MaxJti : refresh_token(c, r)
    \/ \E c \in Users, r \in -1..MaxJti, a \in -1..MaxJti : logout(c, r, a)
    \/ Tick
    \/ Deliver

Spec == Init /\ [][Next]_vars
SpecPw == Init /\ [][NextPw]_vars


\* ------------------------------------- handlers as separate storage steps
\* SpecConc: two requests in flight.  Each step is one storage operation of
\* the handler (a query, a save(), a create(), a delete()) with the local
\* computation that follows it; nothing wraps a handler in a transaction.

Done(r, code) == [r EXCEPT !.pc = "done", !.code = code]

\* verify_email: EmailVerificationToken.objects.get(token=token)
ve_get(p, t) ==
    /\ req[p].pc = "idle"
    /\ LET r0 == [Idle EXCEPT !.op = "verify_email", !.tok = t] IN
       IF EvRows(t) = {}
       THEN req' = [req EXCEPT ![p] = Done(r0, "INVALID_TOKEN")]
       ELSE IF Cardinality(EvRows(t)) > 1
       THEN req' = [req EXCEPT ![p] = Done(r0, "INTERNAL_SERVER_ERROR")]
       ELSE LET row == CHOOSE r \in EvRows(t) : TRUE IN
            req' = [req EXCEPT ![p] = [r0 EXCEPT !.pc = "check", !.owner = row.user,
                                                 !.created_at = row.created_at]]
    /\ UNCHANGED <<dbVars, ledgerVars, hasAccess, now, resp, histVars>>

\* verify_email: the expiry check, then `email_verification_token.user`
\* loads the account row.
ve_check(p) ==
    /\ req[p].op = "verify_email"
    /\ req[p].pc = "check"
    /\ IF VerifyTokenFresh(req[p].created_at)
       THEN req' = [req EXCEPT ![p].pc = "save", ![p].snap = accounts[req[p].owner]]
       ELSE req' = [req EXCEPT ![p] = Done(req[p], "EXPIRED_TOKEN")]
    /\ UNCHANGED <<dbVars, ledgerVars, hasAccess, now, resp, histVars>>

\* verify_email: user.is_verified = True; user.save() writes the loaded row.
ve_save(p) ==
    /\ req[p].op = "verify_email"
    /\ req[p].pc = "save"
    /\ accounts' = [accounts EXCEPT ![req[p].owner] = SetVerified(req[p].snap)]
    /\ req' = [req EXCEPT ![p].pc = "delete"]
    /\ UNCHANGED <<evTokens, prTokens, prNextPk, ledgerVars, hasAccess, now, resp, histVars>>

\* verify_email: email_verification_token.delete() (deleting a row that is
\* already gone deletes nothing and raises nothing), then the pair is minted
\* and the success response returned.
ve_delete(p) ==
    /\ req[p].op = "verify_email"
    /\ req[p].pc = "delete"
    /\ nextJti <= MaxJti
    /\ evTokens' = evTokens \ {[token |-> req[p].tok, user |-> req[p].owner,
                                created_at |-> req[p].created_at]}
    /\ outstanding' = outstanding \cup {ForUser(req[p].owner)}
    /\ nextJti' = nextJti + 1
    /\ hasAccess' = [hasAccess EXCEPT ![req[p].owner] = TRUE]
    /\ everVerified' = everVerified \cup {req[p].owner}
    /\ consumed' = consumed \cup {<<"ev", req[p].tok>>}
    /\ req' = [req EXCEPT ![p] = Done(req[p], "OK")]
    /\ UNCHANGED <<accounts, prTokens, prNextPk, blacklisted, now, resp>>

\* reset_password: request.user was loaded when the request was
\* authenticated; PasswordResetToken.objects.get(user=user, token=...)
rp_get(p, c, t, pw) ==
    /\ req[p].pc = "idle"
    /\ c \in Callers
    /\ LET r0 == [Idle EXCEPT !.op = "reset_password", !.caller = c, !.tok = t, !.pw = pw] IN
       IF c = Anonymous
       THEN req' = [req EXCEPT ![p] = Done(r0, "VALIDATION_ERROR")]
       ELSE IF PrRows(c, t) = {}
       THEN req' = [req EXCEPT ![p] = Done(r0, "UNHANDLED")]
       ELSE IF Cardinality(PrRows(c, t)) > 1
       THEN req' = [req EXCEPT ![p] = Done(r0, "INTERNAL_SERVER_ERROR")]
       ELSE LET row == CHOOSE r \in PrRows(c, t) : TRUE IN
            req' = [req EXCEPT ![p] = [r0 EXCEPT !.pc = "save", !.pk = row.pk,
                                                 !.owner = row.user,
                                                 !.created_at = row.created_at,
                                                 !.snap = accounts[c]]]
    /\ UNCHANGED <<dbVars, ledgerVars, hasAccess, now, resp, histVars>>

\* reset_password: the expiry check, then user.set_password(); user.save()
\* writes the row loaded at authentication.
rp_save(p) ==
    /\ req[p].op = "reset_password"
    /\ req[p].pc = "save"
    /\ IF ResetTokenFresh(req[p].created_at)
       THEN /\ accounts' = [accounts EXCEPT ![req[p].caller] =
                                SetPassword(req[p].snap, req[p].pw)]
            /\ req' = [req EXCEPT ![p].pc = "delete"]
       ELSE /\ req' = [req EXCEPT ![p] = Done(req[p], "INVALID_TOKEN")]
            /\ UNCHANGED accounts
    /\ UNCHANGED <<evTokens, prTokens, prNextPk, ledgerVars, hasAccess, now, resp, histVars>>

\* reset_password: token_obj.delete(); 204
rp_delete(p) ==
    /\ req[p].op = "reset_password"
    /\ req[p].pc = "delete"
    /\ prTokens' = {r \in prTokens : r.pk # req[p].pk}
    /\ consumed' = consumed \cup {<<"pr", req[p].tok>>}
    /\ req' = [req EXCEPT ![p] = Done(req[p], "OK")]
    /\ UNCHANGED <<accounts, evTokens, prNextPk, ledgerVars, hasAccess, now, resp, everVerified>>

\* register: serializer.save() creates the account; the pair is minted.
rg_save(p, e, pw) ==
    /\ req[p].pc = "idle"
    /\ LET r0 == [Idle EXCEPT !.op = "register", !.caller = e, !.pw = pw] IN
       IF accounts[e].exists
       THEN /\ req' = [req EXCEPT ![p] = Done(r0, "VALIDATION_ERROR")]
            /\ UNCHANGED <<accounts, outstanding, nextJti>>
       ELSE /\ nextJti <= MaxJti
            /\ accounts' = [accounts EXCEPT ![e] =
                    [exists |-> TRUE, is_verified |-> FALSE, password |-> pw]]
            /\ outstanding' = outstanding \cup {ForUser(e)}
            /\ nextJti' = nextJti + 1
            /\ req' = [req EXCEPT ![p] = [r0 EXCEPT !.pc = "generate"]]
    /\ UNCHANGED <<evTokens, prTokens, prNextPk, blacklisted, hasAccess, now, resp, histVars>>

\* register: token_generator_and_check_if_exists(EmailVerificationToken)
rg_generate(p) ==
    /\ req[p].op = "register"
    /\ req[p].pc = "generate"
    /\ \E t \in FreeStrings(evTokens) :
            req' = [req EXCEPT ![p].pc = "create", ![p].cand = t]
    /\ UNCHANGED <<dbVars, ledgerVars, hasAccess, now, resp, histVars>>

\* register: EmailVerificationToken.objects.create(token=..., user=user)
rg_create(p) ==
    /\ req[p].op = "register"
    /\ req[p].pc = "create"
    /\ evTokens' = evTokens \cup {NewEvRow(req[p].cand, req[p].caller)}
    /\ hasAccess' = [hasAccess EXCEPT ![req[p].caller] = TRUE]
    /\ consumed' = consumed \ {<<"ev", req[p].cand>>}
    /\ req' = [req EXCEPT ![p] = Done(req[p], "OK")]
    /\ UNCHANGED <<accounts, prTokens, prNextPk, ledgerVars, now, resp, everVerified>>

\* send_password_reset_token: User.objects.get(email=email), then
\* token_generator_and_check_if_exists(PasswordResetToken)
sp_generate(p, e) ==
    /\ req[p].pc = "idle"
    /\ LET r0 == [Idle EXCEPT !.op = "send_password_reset_token", !.caller = e] IN
       IF ~UserExists(e)
       THEN req' = [req EXCEPT ![p] = Done(r0, "USER_NOT_FOUND")]
       ELSE \E t \in FreeStrings(prTokens) :
                req' = [req EXCEPT ![p] = [r0 EXCEPT !.pc = "create", !.cand = t]]
    /\ UNCHANGED <<dbVars, ledgerVars, hasAccess, now, resp, histVars>>

\* send_password_reset_token: PasswordResetToken.objects.create(user=..., token=...)
sp_create(p) ==
    /\ req[p].op = "send_password_reset_token"
    /\ req[p].pc = "create"
    /\ prNextPk <= MaxResetTokens
    /\ prTokens' = prTokens \cup {[pk |-> prNextPk, token |-> req[p].cand,
                                   user |-> req[p].caller, created_at |-> now]}
    /\ prNextPk' = prNextPk + 1
    /\ consumed' = consumed \ {<<"pr", req[p].cand>>}
    /\ req' = [req EXCEPT ![p] = Done(req[p], "OK")]
    /\ UNCHANGED <<accounts, evTokens, ledgerVars, hasAccess, now, resp, everVerified>>

\* logout with a refresh parameter only: RefreshToken(refresh_token) verifies
\* the token (TokenError -> INVALID_REFRESH_TOKEN)
lo_verify(p, c, r) ==
    /\ req[p].pc = "idle"
    /\ CanAuth(c)
    /\ r \in TokenInputs
    /\ LET r0 == [Idle EXCEPT !.op = "logout", !.caller = c, !.jti = r] IN
       IF RefreshTokenValid(r)
       THEN req' = [req EXCEPT ![p] = [r0 EXCEPT !.pc = "blacklist"]]
       ELSE req' = [req EXCEPT ![p] = Done(r0, "INVALID_REFRESH_TOKEN")]
    /\ UNCHANGED <<dbVars, ledgerVars, hasAccess, now, resp, histVars>>

\* logout: token.blacklist() (a get_or_create of the BlacklistedToken row of
\* the identifier), then the success response.
lo_blacklist(p) ==
    /\ req[p].op = "logout"
    /\ req[p].pc = "blacklist"
    /\ blacklisted' = BlacklistRefresh(req[p].jti)
    /\ req' = [req EXCEPT ![p] = Done(req[p], "OK")]
    /\ UNCHANGED <<dbVars, outstanding, nextJti, hasAccess, now, resp, histVars>>

\* The response of a finished request is delivered; the worker is free again.
Return(p) ==
    /\ req[p].pc = "done"
    /\ req' = [req EXCEPT ![p] = Idle]
    /\ UNCHANGED <<dbVars, ledgerVars, hasAccess, now, resp, histVars>>

NextConc ==
    \/ \E p \in Procs, t \in TokenStrings : ve_get(p, t)
    \/ \E p \in Procs : ve_check(p)
    \/ \E p \in Procs : ve_save(p)
    \/ \E p \in Procs : ve_delete(p)
    \/ \E p \in Procs, c \in Users \cup {Anonymous}, t \in TokenStrings :
            rp_get(p, c, t, "p2")
    \/ \E p \in Procs : rp_save(p)
    \/ \E p \in Procs : rp_delete(p)
    \/ \E p \in Procs, e \in Users : rg_save(p, e, "p1")
    \/ \E p \in Procs : rg_generate(p)
    \/ \E p \in Procs : rg_create(p)
    \/ \E p \in Procs, e \in Users : sp_generate(p, e)
    \/ \E p \in Procs : sp_create(p)
    \/ \E p \in Procs : Return(p)

SpecConc == Init /\ [][NextConc]_vars

\* Two logout requests in flight, over accounts made by register.
NextLogout ==
    \/ \E p \in Procs, e \in Users : rg_save(p, e, "p1")
    \/ \E p \in Procs : rg_generate(p)
    \/ \E p \in Procs : rg_create(p)
    \/ \E p \in Procs, c \in Users, r \in -1..MaxJti : lo_verify(p, c, r)
    \/ \E p \in Procs : lo_blacklist(p)
    \/ \E p \in Procs : Return(p)
    \/ Tick

SpecLogout == Init /\ [][NextLogout]_vars

\* ------------------------------------------------------------------ claims

\* C1: a login with the account's password is answered NOT_VERIFIED (and
\* returns no pair) as long as no verify_email has succeeded for a token of
\* that account, and is answered with an access/refresh pair of that account
\* once one has.
C1_LoginGatedByVerification ==
    (resp.op = "login" /\ CredentialsMatch(resp.arg, resp.pw)) =>
        IF resp.arg \in everVerified
        THEN /\ resp.code = "OK"
             /\ resp.sub = resp.arg
             /\ \E o \in outstanding : o.jti = resp.refresh /\ o.sub = resp.arg
        ELSE /\ resp.code = "NOT_VERIFIED"
             /\ resp.refresh = NoJti

C1_Witness ==
    /\ resp.op = "login"
    /\ resp.code = "OK"
    /\ resp.arg \in everVerified

\* C2: once a verify_email (resp. reset_password) with token string t has
\* succeeded, a later verify_email (resp. reset_password by an authenticated
\* caller) with t is answered INVALID_TOKEN and changes no account.
C2_OneTimeTokenSingleUse ==
    [][ /\ (resp'.op = "verify_email" /\ <<"ev", resp'.arg>> \in consumed) =>
                (resp'.code = "INVALID_TOKEN" /\ accounts' = accounts)
        /\ (resp'.op = "reset_password" /\ resp'.caller \in Users
                /\ <<"pr", resp'.arg>> \in consumed) =>
                (resp'.code = "INVALID_TOKEN" /\ accounts' = accounts) ]_vars

\* C3: of two finished requests of the same operation (verify_email, or
\* reset_password by the same caller) that looked up the same stored one-time
\* token, at most one is answered with success.
C3_AtMostOneConsumer ==
    \A p \in Procs, q \in Procs :
        ( /\ p # q
          /\ req[p].pc = "done" /\ req[q].pc = "done"
          /\ req[p].op \in {"verify_email", "reset_password"}
          /\ req[q].op = req[p].op
          /\ req[q].tok = req[p].tok
          /\ req[q].caller = req[p].caller
          /\ req[p].owner # None
          /\ req[q].owner = req[p].owner
          /\ req[q].pk = req[p].pk
          /\ req[q].created_at = req[p].created_at ) =>
        ~(req[p].code = "OK" /\ req[q].code = "OK")

\* C4: a successful logout with refresh token r leaves r blacklisted; a
\* refresh_token or logout presenting a blacklisted r is answered
\* INVALID_REFRESH_TOKEN and hands out no access token, expired or not; no
\* refresh_token succeeds on a blacklisted token.
C4_BlacklistedRefreshRejected ==
    [][ /\ (resp'.op = "logout" /\ resp'.code = "OK" /\ resp'.refresh # NoJti) =>
                resp'.refresh \in blacklisted'
        /\ (resp'.op \in {"refresh_token", "logout"} /\ resp'.refresh \in blacklisted) =>
                (resp'.code = "INVALID_REFRESH_TOKEN" /\ hasAccess' = hasAccess)
        /\ (resp'.op = "refresh_token" /\ resp'.code = "OK") =>
                resp'.refresh \notin blacklisted' ]_vars

C4_Witness ==
    /\ resp.op = "refresh_token"
    /\ resp.refresh \in blacklisted
    /\ \E o \in outstanding : o.jti = resp.refresh /\ o.exp > now
    /\ resp.code = "INVALID_REFRESH_TOKEN"

\* C5: a verify_email / reset_password (by the owner) of a stored one-time
\* token created at T succeeds at every time before T+24h; at every time after
\* T+24h it fails and changes no account (no is_verified flag, no password).
C5_TokenWindow ==
    [][ /\ resp'.op = "verify_email" =>
                \A r \in EvRows(resp'.arg) :
                    /\ now < r.created_at + 24 => resp'.code = "OK"
                    /\ now > r.created_at + 24 =>
                            (resp'.code # "OK" /\ accounts' = accounts)
        /\ (resp'.op = "reset_password" /\ resp'.caller \in Users) =>
                \A r \in PrRows(resp'.caller, resp'.arg) :
                    /\ now < r.created_at + 24 => resp'.code = "OK"
                    /\ now > r.created_at + 24 =>
                            (resp'.code # "OK" /\ accounts' = accounts) ]_vars

C5_Witness ==
    /\ resp.op = "verify_email"
    /\ resp.code = "EXPIRED_TOKEN"
    /\ \E r \in EvRows(resp.arg) : now > r.created_at + 24
    /\ \E u \in Users : accounts[u].exists /\ ~accounts[u].is_verified

\* C6: no two stored email-verification tokens, and no two stored
\* password-reset tokens, carry the same token string.
C6_StoredTokenStringsUnique ==
    /\ \A r1 \in evTokens, r2 \in evTokens : r1 # r2 => r1.token # r2.token
    /\ \A r1 \in prTokens, r2 \in prTokens : r1 # r2 => r1.token # r2.token

\* C7: refresh_token(r) answers with an access token of r's subject when r
\* was minted, is unexpired and is not blacklisted, and with
\* INVALID_REFRESH_TOKEN (and no token) otherwise.
C7_RefreshKeepsSubject ==
    resp.op = "refresh_token" =>
        IF /\ \E o \in outstanding : o.jti = resp.refresh /\ o.exp > now
           /\ resp.refresh \notin blacklisted
        THEN /\ resp.code = "OK"
             /\ \E o \in outstanding : o.jti = resp.refresh /\ o.sub = resp.sub
        ELSE /\ resp.code = "INVALID_REFRESH_TOKEN"
             /\ resp.sub = None

C7_Witness ==
    /\ resp.op = "refresh_token"
    /\ resp.code = "OK"
    /\ resp.caller # resp.sub

\* C8: an account is created unverified, and its is_verified flag changes
\* only from false to true, only in the save() of a verify_email request that
\* found a token the account owns; no other step writes it.
C8_VerificationOneWay ==
    [][ \A u \in Users :
            /\ (~accounts[u].exists /\ accounts'[u].exists) => ~accounts'[u].is_verified
            /\ (accounts[u].exists /\ accounts'[u].is_verified # accounts[u].is_verified) =>
                    /\ accounts'[u].is_verified
                    /\ \E p \in Procs : /\ req[p].op = "verify_email"
                                        /\ req[p].pc = "save"
                                        /\ req[p].owner = u
                                        /\ req'[p].pc = "delete" ]_vars

\* The same property when each handler runs as one step (Spec): the flag
\* changes only in a verify_email answered OK for a token the account owns.
VerificationOneWaySequential ==
    [][ \A u \in Users :
            /\ (~accounts[u].exists /\ accounts'[u].exists) => ~accounts'[u].is_verified
            /\ (accounts[u].exists /\ accounts'[u].is_verified # accounts[u].is_verified) =>
                    /\ accounts'[u].is_verified
                    /\ resp'.op = "verify_email"
                    /\ resp'.code = "OK"
                    /\ \E r \in EvRows(resp'.arg) : r.user = u ]_vars

\* C9: reset_password by an authenticated caller with a stored token string
\* that another account owns is answered INVALID_TOKEN, changes no password
\* and leaves the token in the store.
C9_ResetOnlyOwnToken ==
    [][ ( /\ resp'.op = "reset_password"
          /\ resp'.caller \in Users
          /\ PrRows(resp'.caller, resp'.arg) = {}
          /\ \E r \in prTokens : r.token = resp'.arg /\ r.user # resp'.caller ) =>
        ( /\ resp'.code = "INVALID_TOKEN"
          /\ accounts' = accounts
          /\ prTokens' = prTokens ) ]_vars

\* C10: every request ends in a typed response; a reset_password by an
\* authenticated caller with a token string the store does not hold for the
\* caller is answered INVALID_TOKEN.
C10_TypedErrors ==
    /\ resp.code # "UNHANDLED"
    /\ (resp.op = "reset_password" /\ resp.caller \in Users
            /\ PrRows(resp.caller, resp.arg) = {} /\ resp.code # "OK") =>
            resp.code = "INVALID_TOKEN"

\* C11: no request and no passage of time removes an identifier from the
\* blacklist: what is blacklisted before a step is blacklisted after it.
C11_BlacklistOnlyGrows ==
    [][ blacklisted \subseteq blacklisted' ]_vars

C11_Witness ==
    /\ resp.op = "logout"
    /\ resp.code = "OK"
    /\ Cardinality(blacklisted) >= 2

\* C12: a verify_email or reset_password (by the owner) of a stored token
\* with now > created_at + 24h is answered EXPIRED_TOKEN, and a verify_email of
\* a string the store does not hold is answered INVALID_TOKEN.
C12_ExpiredDistinctFromAbsent ==
    [][ /\ resp'.op = "verify_email" =>
                /\ (\E r \in EvRows(resp'.arg) : now > r.created_at + 24) =>
                        resp'.code = "EXPIRED_TOKEN"
                /\ EvRows(resp'.arg) = {} => resp'.code = "INVALID_TOKEN"
        /\ (resp'.op = "reset_password" /\ resp'.caller \in Users) =>
                ((\E r \in PrRows(resp'.caller, resp'.arg) : now > r.created_at + 24) =>
                        resp'.code = "EXPIRED_TOKEN") ]_vars

\* C13: a verify_email or reset_password (by the owner) of a stored token at
\* exactly created_at + 24h is accepted.
C13_AcceptedAtExactly24h ==
    [][ /\ resp'.op = "verify_email" =>
                ((\E r \in EvRows(resp'.arg) : now = r.created_at + 24) =>
                        resp'.code = "OK")
        /\ (resp'.op = "reset_password" /\ resp'.caller \in Users) =>
                ((\E r \in PrRows(resp'.caller, resp'.arg) : now = r.created_at + 24) =>
                        resp'.code = "OK") ]_vars

\* C15: a login answered NOT_VERIFIED leaves the outstanding and blacklisted
\* token identifiers, the accounts and both one-time token tables unchanged.
C15_UnverifiedLoginMintsNothing ==
    [][ (resp'.op = "login" /\ resp'.code = "NOT_VERIFIED") =>
            /\ outstanding' = outstanding
            /\ blacklisted' = blacklisted
            /\ accounts' = accounts
            /\ evTokens' = evTokens
            /\ prTokens' = prTokens ]_vars

\* C14: a register answered OK has created exactly one account, unverified,
\* and exactly one email-verification token, owned by that account and
\* carrying the string the response returns; a register answered with an
\* error has created no account and no token.
C14_RegisterCreatesOneOfEach ==
    [][ resp'.op = "register" =>
            IF resp'.code = "OK"
            THEN /\ ~accounts[resp'.sub].exists
                 /\ accounts'[resp'.sub].exists
                 /\ ~accounts'[resp'.sub].is_verified
                 /\ \A u \in Users \ {resp'.sub} : accounts'[u] = accounts[u]
                 /\ Cardinality(evTokens') = Cardinality(evTokens) + 1
                 /\ \E row \in evTokens' \ evTokens :
                        /\ evTokens' = evTokens \cup {row}
                        /\ row.user = resp'.sub
                        /\ row.token = resp'.arg
            ELSE /\ accounts' = accounts
                 /\ evTokens' = evTokens ]_vars

C14_Witness ==
    /\ resp.op = "register"
    /\ resp.code = "OK"
    /\ Cardinality({u \in Users : accounts[u].exists}) = 2
    /\ Cardinality(evTokens) = 2

\* C16: a logout step of a request holding refresh token r leaves exactly r
\* added to the blacklist and nothing else of the ledger changed; when r is
\* blacklisted already (by an earlier or an interleaved logout) the ledger is
\* left as it was, with r still blacklisted.
C16_BlacklistIdempotent ==
    [][ \A p \in Procs :
            (req[p].op = "logout" /\ req[p].pc = "blacklist" /\ req'[p].pc = "done") =>
                /\ blacklisted' = blacklisted \cup {req[p].jti}
                /\ outstanding' = outstanding
                /\ nextJti' = nextJti
                /\ req[p].jti \in blacklisted => blacklisted' = blacklisted ]_vars

C16_Witness ==
    /\ \A p \in Procs : req[p].op = "logout" /\ req[p].pc = "done" /\ req[p].code = "OK"
    /\ req[1].jti = req[2].jti
    /\ req[1].jti \in blacklisted

\* C17: send_password_reset_token for an e-mail that has an account stores
\* one new password-reset token owned by that account; for an e-mail without
\* an account it answers USER_NOT_FOUND and leaves both token tables as they
\* were.
C17_ResetTokenIssuedOrUserNotFound ==
    [][ resp'.op = "send_password_reset_token" =>
            IF resp'.code = "OK"
            THEN /\ accounts[resp'.sub].exists
                 /\ \E row \in prTokens' \ prTokens :
                        /\ prTokens' = prTokens \cup {row}
                        /\ row.user = resp'.sub
                        /\ row.token = resp'.arg
                 /\ evTokens' = evTokens
            ELSE /\ resp'.code = "USER_NOT_FOUND"
                 /\ ~accounts[resp'.arg].exists
                 /\ prTokens' = prTokens
                 /\ evTokens' = evTokens ]_vars

C17_Witness ==
    /\ resp.op = "send_password_reset_token"
    /\ resp.code = "USER_NOT_FOUND"
    /\ prTokens # {}

\* C18: a verify_email or reset_password that is not answered with success
\* leaves every account, both one-time token tables (an expired row stays
\* where it is) and the outstanding and blacklisted identifiers unchanged.
C18_FailedUseChangesNothing ==
    [][ (resp'.op \in {"verify_email", "reset_password"} /\ resp'.code # "OK") =>
            /\ accounts' = accounts
            /\ evTokens' = evTokens
            /\ prTokens' = prTokens
            /\ outstanding' = outstanding
            /\ blacklisted' = blacklisted ]_vars

C18_Witness ==
    /\ resp.op = "reset_password"
    /\ resp.code = "INVALID_TOKEN"
    /\ \E r \in PrRows(resp.caller, resp.arg) : ~ResetTokenFresh(r.created_at)

\* C19: a logout given neither token blacklists nothing but (at most) the
\* identifier it mints itself: every refresh token of the caller that
\* refresh_token accepted before the logout is accepted after it.
C19_LogoutNoParamsKeepsEarlierTokens ==
    [][ (resp'.op = "logout" /\ resp'.arg = FreshPair) =>
            /\ blacklisted' \subseteq blacklisted \cup {nextJti}
            /\ \A j \in 1..MaxJti :
                    (RefreshTokenValid(j) /\ Decode(j).sub = resp'.caller) =>
                        RefreshTokenValid(j)' ]_vars

C19_Witness ==
    /\ resp.op = "logout"
    /\ resp.arg = FreshPair
    /\ \E j \in 1..MaxJti :
            /\ RefreshTokenValid(j)
            /\ Decode(j).sub = resp.caller
            /\ j + 1 < nextJti

\* C20: refresh_token, answered with an access token or with an error, leaves
\* the outstanding and blacklisted identifiers, the accounts and both
\* one-time token tables unchanged; a refresh token it accepted is accepted
\* again.
C20_RefreshChangesNothing ==
    [][ resp'.op = "refresh_token" =>
            /\ outstanding' = outstanding
            /\ nextJti' = nextJti
            /\ blacklisted' = blacklisted
            /\ accounts' = accounts
            /\ evTokens' = evTokens
            /\ prTokens' = prTokens
            /\ resp'.code = "OK" =>
                    /\ \E o \in outstanding' : o.jti = resp'.refresh /\ o.exp > now'
                    /\ resp'.refresh \notin blacklisted' ]_vars

C20_Witness ==
    /\ resp.op = "refresh_token"
    /\ resp.code = "OK"
    /\ RefreshTokenValid(resp.refresh)
    /\ Cardinality(outstanding) >= 2

====
